---- MODULE Spec2Model ----
(***************************************************************************)
(* Cycle-accurate model of the smolarith arithmetic cores                  *)
(* (src/src/smolarith/div.py, src/src/smolarith/mul.py).                   *)
(*                                                                         *)
(* Every component is a synchronous circuit.  One action of the model is   *)
(* one active clock edge of one component: it reads the registers and the  *)
(* wires driven by the environment during the cycle that ends (inp.valid,  *)
(* inp.payload, outp.ready), computes every register's next value the way  *)
(* the elaborated circuit does (all right-hand sides read the values       *)
(* before the edge, a later assignment to the same register overrides an   *)
(* earlier one), and lets the environment drive new values on its wires.   *)
(* Arithmetic is done on integers and cut to the width of the assigned     *)
(* signal, as the hardware description language does.                      *)
(***************************************************************************)
EXTENDS Integers, Sequences, FiniteSets, TLC

(***************************************************************************)
(* Bounds and program constants                                            *)
(***************************************************************************)

\* Bit width of the operands of every component instance (the `width`
\* constructor parameter).
Width == 3

\* Members of the Sign enumerations (auto() numbers them from 1); a
\* register of that shape resets to the raw value 0, which is no member.
UNSIGNED == 1
SIGNED == 2
SIGNED_UNSIGNED == 3

DivSigns == {UNSIGNED, SIGNED}

MulSigns == {UNSIGNED, SIGNED, SIGNED_UNSIGNED}

Words == 0 .. (2^Width - 1)

(***************************************************************************)
(* Fixed-width words                                                       *)
(***************************************************************************)

\* Value.as_unsigned / assignment to an unsigned signal of w bits.
ToUnsigned(x, w) == x % (2^w)

\* Value.as_signed / assignment to a signed signal of w bits.
ToSigned(x, w) ==
    LET m == x % (2^w)
    IN  IF m >= 2^(w - 1) THEN m - 2^w ELSE m

\* x[i] of a word (two's complement for a negative x).
Bit(x, i) == (x \div (2^i)) % 2

\* x | 1
Or1(x) == IF x % 2 = 0 THEN x + 1 ELSE x

Abs(x) == IF x >= 0 THEN x ELSE -x

\* The operand bit pattern read according to the sign tag of a divide.
DivOperand(x, sign) == IF sign = SIGNED THEN ToSigned(x, Width) ELSE x

(***************************************************************************)
(* _Negate: outp = (-inp.as_signed())[:-1]                                 *)
(***************************************************************************)

\* A negation that leaves out the carry in.
NegateOutOnesComplement(inp) == 2^Width - 1 - inp

NegateOut(inp) == ToUnsigned(-ToSigned(inp, Width), Width)

(***************************************************************************)
(* _RestoringDiv: unsigned-only restoring divider core                     *)
(***************************************************************************)

CoreInit ==
    [intermediate |-> 0, iters_left |-> 0, s_copy |-> 0, d_copy |-> 0,
     valid |-> FALSE, restore_step |-> FALSE, r |-> 0]

RestoringInpReady(c, outp_ready) ==
    (outp_ready /\ c.valid) \/ ~(c.iters_left # 0)

\* An output whose sign field is left undriven.
RestoringOutpNoSign(c) ==
    [sign |-> 0,
     q |-> c.intermediate % (2^Width),
     r |-> (c.intermediate \div (2^Width)) % (2^Width)]

RestoringOutp(c) ==
    [sign |-> c.s_copy,
     q |-> c.intermediate % (2^Width),
     r |-> (c.intermediate \div (2^Width)) % (2^Width)]

\* A loop that runs one iteration short.
CoreIterationsShort == Width - 1

\* Number of loop iterations a core runs for one divide.
CoreIterations == Width

\* A comparison that also borrows on an exact fit.
RestoringBorrowOrEqual(c) == 2 * c.intermediate - c.d_copy * (2^Width) <= 0

\* A comparison against the divisor left unshifted.
RestoringBorrowUnshifted(c) == 2 * c.intermediate - c.d_copy < 0

\* ((intermediate << 1) - (d_copy << width)) < 0
RestoringBorrow(c) == 2 * c.intermediate - c.d_copy * (2^Width) < 0

RestoringStep(c, inp_valid, p, outp_ready) ==
    LET in_progress == c.iters_left # 0
        inp_ready == RestoringInpReady(c, outp_ready)
        \* S = (S << 1) - D
        s == 2 * c.intermediate - c.d_copy * (2^Width)
        c1 == IF c.valid /\ outp_ready THEN [c EXCEPT !.valid = FALSE] ELSE c
        c2 == IF inp_ready /\ inp_valid
              THEN [c1 EXCEPT !.s_copy = p.sign,
                              !.d_copy = p.d,
                              !.iters_left = CoreIterations,
                              !.intermediate = p.n]
              ELSE c1
        c3 == IF in_progress
              THEN [c2 EXCEPT !.iters_left = c.iters_left - 1,
                              !.valid = IF c.iters_left - 1 = 0
                                        THEN TRUE ELSE c2.valid,
                              !.intermediate =
                                  IF RestoringBorrow(c)
                                  THEN ToUnsigned(2 * c.intermediate, 2 * Width + 1)
                                  ELSE ToUnsigned(Or1(s), 2 * Width + 1)]
              ELSE c2
    IN  c3

(***************************************************************************)
(* _NonRestoringDiv: unsigned-only non-restoring divider core              *)
(***************************************************************************)

NonRestoringInpReady(c, outp_ready) ==
    (outp_ready /\ c.valid) \/ ~((c.iters_left # 0) \/ c.restore_step)

\* An output that takes the remainder from the upper half of intermediate,
\* as the restoring core does.
NonRestoringOutpUnrestored(c) ==
    [sign |-> c.s_copy,
     q |-> c.intermediate % (2^Width),
     r |-> (c.intermediate \div (2^Width)) % (2^Width)]

NonRestoringOutp(c) ==
    [sign |-> c.s_copy, q |-> c.intermediate % (2^Width), r |-> c.r]

\* A restore cycle that never decrements the quotient.
NonRestoringFixQuotientNoDecrement(lo, top) ==
    ToUnsigned(lo - ((2^Width - 1) - lo), Width)

\* The restore cycle's quotient: the encoded bits lo minus their ones'
\* complement, and one less if the top bit of intermediate is set.
NonRestoringFixQuotient(lo, top) ==
    LET nlo == (2^Width - 1) - lo
    IN  IF top = 1 THEN ToUnsigned(lo - nlo - 1, Width)
        ELSE ToUnsigned(lo - nlo, Width)

NonRestoringStep(c, inp_valid, p, outp_ready) ==
    LET in_progress == (c.iters_left # 0) \/ c.restore_step
        inp_ready == NonRestoringInpReady(c, outp_ready)
        top == Bit(c.intermediate, 2 * Width)
        lo == c.intermediate % (2^Width)
        hi == c.intermediate \div (2^Width)
        c1 == IF c.valid /\ outp_ready THEN [c EXCEPT !.valid = FALSE] ELSE c
        c2 == IF inp_ready /\ inp_valid
              THEN [c1 EXCEPT !.s_copy = p.sign,
                              !.d_copy = p.d,
                              !.iters_left = CoreIterations,
                              !.intermediate = p.n]
              ELSE c1
        c3 == IF in_progress /\ ~c.restore_step
              THEN [c2 EXCEPT !.iters_left = c.iters_left - 1,
                              !.restore_step = IF c.iters_left - 1 = 0
                                               THEN TRUE ELSE c2.restore_step,
                              !.intermediate =
                                  IF top = 1
                                  THEN ToUnsigned(2 * c.intermediate
                                                  + c.d_copy * (2^Width),
                                                  2 * Width + 1)
                                  ELSE ToUnsigned(Or1(2 * c.intermediate
                                                      - c.d_copy * (2^Width)),
                                                  2 * Width + 1)]
              ELSE c2
        c4 == IF c.restore_step
              THEN [c3 EXCEPT !.restore_step = FALSE,
                              !.valid = TRUE,
                              !.intermediate =
                                  (c3.intermediate \div (2^Width)) * (2^Width)
                                  + NonRestoringFixQuotient(lo, top),
                              !.r = IF top = 1
                                    THEN ToUnsigned(hi + c.d_copy, Width)
                                    ELSE ToUnsigned(hi, Width)]
              ELSE c3
    IN  c4

(***************************************************************************)
(* MulticycleDiv: sign-conversion shell around one of the two cores        *)
(***************************************************************************)

MulticycleDivInit ==
    [fsm |-> "IDLE", quad_n |-> 0, quad_d |-> 0,
     div_inputs |-> [sign |-> 0, n |-> 0, d |-> 0],
     outp |-> [sign |-> 0, q |-> 0, r |-> 0],
     core |-> CoreInit]

\* An input side that is open again while the result waits on outp.
MulticycleDivInpReadyWhileOut(m) == m.fsm \in {"IDLE", "DIVIDE_OUT"}

MulticycleDivInpReady(m) == m.fsm = "IDLE"

MulticycleDivOutpValid(m) == m.fsm = "DIVIDE_OUT"

CoreInpReady(impl, c, outp_ready) ==
    IF impl = "RESTORING" THEN RestoringInpReady(c, outp_ready)
    ELSE NonRestoringInpReady(c, outp_ready)

CoreOutp(impl, c) ==
    IF impl = "RESTORING" THEN RestoringOutp(c) ELSE NonRestoringOutp(c)

CoreStep(impl, c, inp_valid, p, outp_ready) ==
    IF impl = "RESTORING" THEN RestoringStep(c, inp_valid, p, outp_ready)
    ELSE NonRestoringStep(c, inp_valid, p, outp_ready)

\* A dividend sign latched without looking at the divisor.
QuadNAnyDivisor(p) == Bit(p.n, Width - 1) = 1

\* quad.n: the dividend is negative and the divisor is not zero.
QuadN(p) == (Bit(p.n, Width - 1) = 1) /\ (p.d # 0)

\* State "IDLE" with inp.valid: latch the quadrant and the operands,
\* converted to unsigned for a signed divide.
MulticycleDivLatch(m, p) ==
    LET nneg == QuadN(p)
        dneg == Bit(p.d, Width - 1) = 1
    IN  [m EXCEPT !.fsm = "DIVIDE_IN",
                  !.quad_n = IF nneg THEN 1 ELSE 0,
                  !.quad_d = IF dneg THEN 1 ELSE 0,
                  !.div_inputs =
                      [sign |-> p.sign,
                       n |-> IF p.sign = SIGNED /\ nneg
                             THEN NegateOut(p.n) ELSE p.n,
                       d |-> IF p.sign = SIGNED /\ dneg
                             THEN NegateOut(p.d) ELSE p.d]]

\* A conversion that goes by the quadrant whatever the sign mode.
MulticycleDivConvertIgnoresSign(m, res) ==
    LET qn == m.quad_n = 1
        qd == m.quad_d = 1
    IN  [m EXCEPT !.fsm = "DIVIDE_OUT",
                  !.outp = [res EXCEPT
                               !.q = IF qn # qd THEN NegateOut(res.q) ELSE @,
                               !.r = IF qn THEN NegateOut(res.r) ELSE @]]

\* A conversion that negates the remainder for a negative divisor as well.
MulticycleDivConvertRemainderOfDivisor(m, res) ==
    LET sgn == m.div_inputs.sign = SIGNED
        qn == m.quad_n = 1
        qd == m.quad_d = 1
    IN  [m EXCEPT !.fsm = "DIVIDE_OUT",
                  !.outp = [res EXCEPT
                               !.q = IF sgn /\ qn # qd
                                     THEN NegateOut(res.q) ELSE @,
                               !.r = IF sgn /\ (qn \/ qd)
                                     THEN NegateOut(res.r) ELSE @]]

\* State "DIVIDE_LOOP" with div_impl.outp.valid: register the core's result,
\* converted back according to the latched quadrant.
MulticycleDivConvert(m, res) ==
    LET sgn == m.div_inputs.sign = SIGNED
        qn == m.quad_n = 1
        qd == m.quad_d = 1
        o1 == res
        o2 == IF sgn /\ qn /\ ~qd
              THEN [o1 EXCEPT !.q = NegateOut(res.q), !.r = NegateOut(res.r)]
              ELSE o1
        o3 == IF sgn /\ ~qn /\ qd
              THEN [o2 EXCEPT !.q = NegateOut(res.q)]
              ELSE o2
        o4 == IF sgn /\ qn /\ qd
              THEN [o3 EXCEPT !.r = NegateOut(res.r)]
              ELSE o3
    IN  [m EXCEPT !.fsm = "DIVIDE_OUT", !.outp = o4]

\* A shell that leaves "DIVIDE_OUT" without waiting for outp.ready.
MulticycleDivOutNoWait(m, outp_ready) == [m EXCEPT !.fsm = "IDLE"]

\* A shell that stays in "DIVIDE_OUT" once it is there.
MulticycleDivOutHolds(m, outp_ready) == m

\* State "DIVIDE_OUT": hold the result until outp.ready.
MulticycleDivOut(m, outp_ready) ==
    IF outp_ready THEN [m EXCEPT !.fsm = "IDLE"] ELSE m

MulticycleDivStep(impl, m, inp_valid, p, outp_ready) ==
    LET core_inp_valid == m.fsm = "DIVIDE_IN"
        core_outp_ready == m.fsm = "DIVIDE_LOOP"
        core_next == CoreStep(impl, m.core, core_inp_valid, m.div_inputs,
                              core_outp_ready)
        shell ==
            CASE m.fsm = "IDLE" ->
                    IF inp_valid THEN MulticycleDivLatch(m, p) ELSE m
              [] m.fsm = "DIVIDE_IN" ->
                    IF CoreInpReady(impl, m.core, core_outp_ready)
                    THEN [m EXCEPT !.fsm = "DIVIDE_LOOP"] ELSE m
              [] m.fsm = "DIVIDE_LOOP" ->
                    IF m.core.valid
                    THEN MulticycleDivConvert(m, CoreOutp(impl, m.core))
                    ELSE m
              [] m.fsm = "DIVIDE_OUT" -> MulticycleDivOut(m, outp_ready)
    IN  [shell EXCEPT !.core = core_next]

(***************************************************************************)
(* _MagnitudeComparator and LongDivider                                    *)
(***************************************************************************)

\* A comparator that reports an exact fit as too large.
MagnitudeComparatorStrict(divisor, dividend) ==
    LET a == ToSigned(divisor, 2 * Width)
        b == ToSigned(dividend, 2 * Width)
    IN  Abs(a) < Abs(b)

\* o = abs(divisor) <= abs(dividend), both signed signals of 2*width bits.
MagnitudeComparator(divisor, dividend) ==
    LET a == ToSigned(divisor, 2 * Width)
        b == ToSigned(dividend, 2 * Width)
        abs_a == IF a >= 0 THEN a ELSE -a
        abs_b == IF b >= 0 THEN b ELSE -b
    IN  abs_a <= abs_b

LongDividerInit ==
    [quotient |-> 0, remainder |-> 0, iters_left |-> 0, s_copy |-> 0,
     a_sign |-> 0, n_sign |-> 0, valid |-> FALSE]

\* A loop that stops one iteration before the last.
LongDividerInProgressShort(l) == l.iters_left > 1

LongDividerInProgress(l) == l.iters_left # 0

LongDividerInpReady(l, outp_ready) ==
    (outp_ready /\ l.valid) \/ ~LongDividerInProgress(l)

\* An output whose remainder is wired one bit too high.
LongDividerOutpRemainderSlice(l) ==
    [sign |-> l.s_copy,
     q |-> ToUnsigned(l.quotient, Width),
     r |-> ToUnsigned(l.remainder \div 2, Width)]

LongDividerOutp(l) ==
    [sign |-> l.s_copy,
     q |-> ToUnsigned(l.quotient, Width),
     r |-> ToUnsigned(l.remainder, Width)]

\* The value on mag.o during the cycle: the comparator's inputs are driven
\* by the accepting branch and, overriding it, by the main division loop.
LongDividerMagO(l, inp_valid, p, outp_ready) ==
    LET accept == LongDividerInpReady(l, outp_ready) /\ inp_valid
        n_s == ToSigned(p.n, Width)
        d_s == ToSigned(p.d, Width)
        first == 2^(Width - 1)
        shift == 2^(l.iters_left - 1)
    IN  IF LongDividerInProgress(l)
        THEN IF p.sign = SIGNED
             THEN MagnitudeComparator(d_s * shift, l.remainder)
             ELSE MagnitudeComparator(p.d * shift, l.remainder)
        ELSE IF accept
        THEN IF p.sign = SIGNED
             THEN MagnitudeComparator(d_s * first, n_s)
             ELSE MagnitudeComparator(p.d * first, p.n)
        ELSE MagnitudeComparator(0, 0)

\* Branch "inp.ready & inp.valid": latch the signs and do the first step.
LongDividerAccept(l, p, mag_o) ==
    LET n_s == ToSigned(p.n, Width)
        d_s == ToSigned(p.d, Width)
        n_top == Bit(p.n, Width - 1)
        d_top == Bit(p.d, Width - 1)
        sgn == p.sign = SIGNED
        shift_amt == 2^(Width - 1)
        zero_div == sgn /\ p.d = 0 /\ n_top = 1
        l1 == [l EXCEPT !.iters_left = Width - 1,
                        !.a_sign = IF zero_div THEN 0 ELSE n_top,
                        !.n_sign = IF zero_div THEN 0 ELSE d_top,
                        !.s_copy = p.sign]
        \* (n[-1] & d == 0) parses as ((n[-1] & d) == 0)
        condA == (p.sign = UNSIGNED) \/ (n_top = 0 /\ d_top = 0)
                 \/ (n_top = 0 \/ Bit(p.d, 0) = 0)
        \* ~(d == 0 & n[-1]) parses as ~(d == (0 & n[-1]))
        condB == sgn /\ n_top = 1 /\ d_top = 0 /\ ~(p.d = 0)
        condC == sgn /\ n_top = 0 /\ d_top = 1
        condD == sgn /\ n_top = 1 /\ d_top = 1
        a1 == IF condA
              THEN [l1 EXCEPT !.quotient = ToUnsigned(shift_amt, 2 * Width),
                              !.remainder =
                                  IF sgn
                                  THEN ToUnsigned(n_s - d_s * shift_amt, 2 * Width)
                                  ELSE ToUnsigned(p.n - p.d * shift_amt, 2 * Width)]
              ELSE l1
        a2 == IF condB
              THEN [a1 EXCEPT !.quotient = ToUnsigned(-shift_amt, 2 * Width),
                              !.remainder =
                                  ToUnsigned(n_s - d_s * (-shift_amt), 2 * Width)]
              ELSE a1
        a3 == IF condC
              THEN [a2 EXCEPT !.quotient = ToUnsigned(-shift_amt, 2 * Width),
                              !.remainder =
                                  ToUnsigned(n_s - d_s * (-shift_amt), 2 * Width)]
              ELSE a2
        a4 == IF condD
              THEN [a3 EXCEPT !.quotient = ToUnsigned(shift_amt, 2 * Width),
                              !.remainder =
                                  ToUnsigned(n_s - d_s * shift_amt, 2 * Width)]
              ELSE a3
    IN  IF mag_o
        THEN a4
        ELSE [l1 EXCEPT !.quotient = 0,
                        !.remainder = IF sgn THEN ToUnsigned(n_s, 2 * Width)
                                      ELSE p.n]

\* Branch "in_progress": one step of the main division loop.  `nxt` holds
\* the assignments made earlier in the same cycle, `l` the registers.
LongDividerLoop(l, nxt, p, mag_o) ==
    LET d_s == ToSigned(p.d, Width)
        sgn == l.s_copy = SIGNED
        shift_amt == 2^(l.iters_left - 1)
        a == l.a_sign = 1
        n == l.n_sign = 1
        l1 == [nxt EXCEPT !.iters_left = l.iters_left - 1]
        condA == (l.s_copy = UNSIGNED) \/ (~a /\ ~n)
        condB == sgn /\ a /\ ~n
        condC == sgn /\ ~a /\ n
        condD == sgn /\ a /\ n
        a1 == IF condA
              THEN [l1 EXCEPT !.quotient =
                                  ToUnsigned(l.quotient + shift_amt, 2 * Width),
                              !.remainder =
                                  IF sgn
                                  THEN ToUnsigned(l.remainder - d_s * shift_amt,
                                                  2 * Width)
                                  ELSE ToUnsigned(l.remainder - p.d * shift_amt,
                                                  2 * Width)]
              ELSE l1
        a2 == IF condB
              THEN [a1 EXCEPT !.quotient =
                                  ToUnsigned(l.quotient - shift_amt, 2 * Width),
                              !.remainder =
                                  ToUnsigned(l.remainder - d_s * (-shift_amt),
                                             2 * Width)]
              ELSE a1
        a3 == IF condC
              THEN [a2 EXCEPT !.quotient =
                                  ToUnsigned(l.quotient - shift_amt, 2 * Width),
                              !.remainder =
                                  ToUnsigned(l.remainder - d_s * (-shift_amt),
                                             2 * Width)]
              ELSE a2
        a4 == IF condD
              THEN [a3 EXCEPT !.quotient =
                                  ToUnsigned(l.quotient + shift_amt, 2 * Width),
                              !.remainder =
                                  ToUnsigned(l.remainder - d_s * shift_amt,
                                             2 * Width)]
              ELSE a3
        l2 == IF mag_o THEN a4 ELSE l1
    IN  IF l.iters_left - 1 = 0 THEN [l2 EXCEPT !.valid = TRUE] ELSE l2

\* An output side that leaves outp.valid as it is on a transfer.
LongDividerConsumeKeepsValid(l, outp_ready) == l

\* The output transfer clears outp.valid.
LongDividerConsume(l, outp_ready) ==
    IF outp_ready /\ l.valid THEN [l EXCEPT !.valid = FALSE] ELSE l

LongDividerStep(l, inp_valid, p, outp_ready) ==
    LET mag_o == LongDividerMagO(l, inp_valid, p, outp_ready)
        l1 == LongDividerConsume(l, outp_ready)
        l2 == IF LongDividerInpReady(l, outp_ready) /\ inp_valid
              THEN LongDividerAccept(l1, p, mag_o) ELSE l1
        l3 == IF LongDividerInProgress(l)
              THEN LongDividerLoop(l, l2, p, mag_o) ELSE l2
    IN  l3

(***************************************************************************)
(* PipelinedMul: width-stage shift-add pipeline                            *)
(***************************************************************************)

Stages == 0 .. (Width - 1)

PipelinedMulInit ==
    [pipeline_in |-> [i \in Stages |-> [a |-> 0, b |-> 0, s |-> 0, v |-> 0]],
     pipeline_out |-> [i \in Stages |-> 0]]

\* An output valid taken from the stage before the last.
PipelinedMulOutpValidEarly(m) == m.pipeline_in[Width - 2].v = 1

PipelinedMulOutpValid(m) == m.pipeline_in[Width - 1].v = 1

\* An input side that only looks at outp.ready.
PipelinedMulInpReadyIgnoresValid(m, outp_ready) == outp_ready

PipelinedMulInpReady(m, outp_ready) ==
    ~PipelinedMulOutpValid(m) \/ outp_ready

\* An output that takes the sign tag from the first stage.
PipelinedMulOutpSignOfStage0(m) ==
    [sign |-> m.pipeline_in[0].s,
     o |-> ToUnsigned(m.pipeline_out[Width - 1], 2 * Width)]

PipelinedMulOutp(m) ==
    [sign |-> m.pipeline_in[Width - 1].s,
     o |-> ToUnsigned(m.pipeline_out[Width - 1], 2 * Width)]

\* Input stage on an accepted transfer: the registers of stage 0.
PipelinedMulStage0(p) ==
    LET a_s == ToSigned(p.a, Width)
        b_s == ToSigned(p.b, Width)
    IN  IF p.sign = SIGNED /\ Bit(p.b, Width - 1) = 1
        THEN [inp |-> [a |-> ToSigned(-a_s, Width + 1),
                       b |-> ToUnsigned(-b_s, Width),
                       s |-> p.sign, v |-> 1],
              out |-> ToSigned((-a_s) * Bit(-b_s, 0), 2 * Width)]
        ELSE IF p.sign = UNSIGNED
        THEN [inp |-> [a |-> ToSigned(p.a, Width + 1), b |-> p.b,
                       s |-> p.sign, v |-> 1],
              out |-> ToSigned(p.a * Bit(p.b, 0), 2 * Width)]
        ELSE [inp |-> [a |-> ToSigned(a_s, Width + 1), b |-> p.b,
                       s |-> p.sign, v |-> 1],
              out |-> ToSigned(a_s * Bit(p.b, 0), 2 * Width)]

\* A stage that adds its partial product without shifting it into place.
PipelinedMulAccUnshifted(m, i) ==
    ToSigned(m.pipeline_in[i - 1].a * Bit(m.pipeline_in[i - 1].b, i)
             + m.pipeline_out[i - 1], 2 * Width)

\* pipeline_out[i] of a stage i >= 1: ((a * b[i]) << i) + acc
PipelinedMulAcc(m, i) ==
    ToSigned(m.pipeline_in[i - 1].a * Bit(m.pipeline_in[i - 1].b, i) * (2^i)
             + m.pipeline_out[i - 1], 2 * Width)

\* A stage 0 whose v stays as it is when no input is taken.
PipelinedMulBubbleKeepsV(m) == m.pipeline_in[0]

\* Stage 0 after an edge that takes no input: v is cleared.
PipelinedMulBubble(m) == [m.pipeline_in[0] EXCEPT !.v = 0]

PipelinedMulStep(m, inp_valid, p, outp_ready) ==
    LET inp_ready == PipelinedMulInpReady(m, outp_ready)
        accept == inp_ready /\ inp_valid
        s0 == PipelinedMulStage0(p)
    IN  [pipeline_in |->
            [i \in Stages |->
                IF i = 0
                THEN IF accept THEN s0.inp ELSE PipelinedMulBubble(m)
                ELSE IF inp_ready THEN m.pipeline_in[i - 1]
                     ELSE m.pipeline_in[i]],
         pipeline_out |->
            [i \in Stages |->
                IF i = 0
                THEN IF accept THEN s0.out ELSE m.pipeline_out[0]
                ELSE IF inp_ready THEN PipelinedMulAcc(m, i)
                     ELSE m.pipeline_out[i]]]

(***************************************************************************)
(* MulticycleMul: one shift-add step per clock                             *)
(***************************************************************************)

MulticycleMulInit ==
    [addend |-> 0, s_copy |-> 0, intermediate |-> 0, iters_left |-> 0,
     valid |-> FALSE]

MulticycleMulInProgress(m) == m.iters_left # 0

MulticycleMulInpReady(m, outp_ready) ==
    (outp_ready /\ m.valid) \/ ~MulticycleMulInProgress(m)

MulticycleMulOutp(m) ==
    [sign |-> m.s_copy, o |-> ToUnsigned(m.intermediate, 2 * Width)]

\* Branch "inp.ready & inp.valid": the first step is done while loading.
MulticycleMulAccept(m, p) ==
    LET a_s == ToSigned(p.a, Width)
        b_s == ToSigned(p.b, Width)
        b0 == Bit(p.b, 0)
        \* (-inp.payload.b)[:-1]
        negb == ToUnsigned(-p.b, Width)
        m1 == [m EXCEPT !.s_copy = p.sign, !.iters_left = Width - 1]
    IN  IF p.sign = SIGNED /\ Bit(p.b, Width - 1) = 1
        THEN [m1 EXCEPT
                !.addend = ToSigned(-a_s, Width + 1),
                !.intermediate =
                    ToSigned((((-a_s) * Bit(-b_s, 0)) * (2^Width) + negb)
                             \div 2, 2 * Width + 1)]
        ELSE IF p.sign = UNSIGNED
        THEN [m1 EXCEPT
                !.addend = ToSigned(p.a, Width + 1),
                !.intermediate =
                    ToSigned(((p.a * b0) * (2^Width) + p.b) \div 2,
                             2 * Width + 1)]
        ELSE [m1 EXCEPT
                !.addend = ToSigned(a_s, Width + 1),
                !.intermediate =
                    ToSigned(((a_s * b0) * (2^Width) + p.b) \div 2,
                             2 * Width + 1)]

\* A loop step that shifts before it adds the partial product.
MulticycleMulLoopShiftFirst(m, nxt) ==
    LET pprod == m.addend * Bit(m.intermediate, 0)
        n1 == [nxt EXCEPT
                 !.iters_left = m.iters_left - 1,
                 !.intermediate =
                     ToSigned((m.intermediate \div 2) + pprod * (2^Width),
                              2 * Width + 1)]
    IN  IF m.iters_left - 1 = 0 THEN [n1 EXCEPT !.valid = TRUE] ELSE n1

\* A loop step that raises outp.valid one step before the last.
MulticycleMulLoopEarlyValid(m, nxt) ==
    LET pprod == m.addend * Bit(m.intermediate, 0)
        n1 == [nxt EXCEPT
                 !.iters_left = m.iters_left - 1,
                 !.intermediate =
                     ToSigned((m.intermediate + pprod * (2^Width)) \div 2,
                              2 * Width + 1)]
    IN  IF m.iters_left - 1 <= 1 THEN [n1 EXCEPT !.valid = TRUE] ELSE n1

\* A loop step that adds the partial product at the bottom of the register.
MulticycleMulLoopAddLow(m, nxt) ==
    LET pprod == m.addend * Bit(m.intermediate, 0)
        n1 == [nxt EXCEPT
                 !.iters_left = m.iters_left - 1,
                 !.intermediate =
                     ToSigned((m.intermediate + pprod) \div 2,
                              2 * Width + 1)]
    IN  IF m.iters_left - 1 = 0 THEN [n1 EXCEPT !.valid = TRUE] ELSE n1

\* Branch "iters_left != 0": add, then shift the shared register right.
MulticycleMulLoop(m, nxt) ==
    LET pprod == m.addend * Bit(m.intermediate, 0)
        n1 == [nxt EXCEPT
                 !.iters_left = m.iters_left - 1,
                 !.intermediate =
                     ToSigned((m.intermediate + pprod * (2^Width)) \div 2,
                              2 * Width + 1)]
    IN  IF m.iters_left - 1 = 0 THEN [n1 EXCEPT !.valid = TRUE] ELSE n1

MulticycleMulStep(m, inp_valid, p, outp_ready) ==
    LET m1 == IF m.valid /\ outp_ready THEN [m EXCEPT !.valid = FALSE] ELSE m
        m2 == IF MulticycleMulInpReady(m, outp_ready) /\ inp_valid
              THEN MulticycleMulAccept(m1, p) ELSE m1
        m3 == IF MulticycleMulInProgress(m)
              THEN MulticycleMulLoop(m, m2) ELSE m2
    IN  m3

(***************************************************************************)
(* base10: double dabble, binary to base 1000, BinaryToBCD                 *)
(***************************************************************************)

\* ceil(log10(2^x))
Base10Width(x) ==
    CHOOSE k \in 0 .. x : 10^k >= 2^x /\ (k = 0 \/ 10^(k - 1) < 2^x)

\* A cell that adds 3 only above 5.
ShiftAdd3Above5(cin, inp, final) ==
    LET shreg == cin + 2 * inp
        shreg_plus3 == (shreg + 3) % 16
    IN  IF ~final /\ shreg > 5
        THEN [outp |-> shreg_plus3 % 8, cout |-> shreg_plus3 \div 8]
        ELSE [outp |-> shreg % 8, cout |-> shreg \div 8]

\* A cell that adds 3 even when it is the last of its level.
ShiftAdd3FinalAdds(cin, inp, final) ==
    LET shreg == cin + 2 * inp
        shreg_plus3 == (shreg + 3) % 16
    IN  IF shreg >= 5
        THEN [outp |-> shreg_plus3 % 8, cout |-> shreg_plus3 \div 8]
        ELSE [outp |-> shreg % 8, cout |-> shreg \div 8]

ShiftAdd3(cin, inp, final) ==
    LET shreg == cin + 2 * inp
        shreg_plus3 == (shreg + 3) % 16
    IN  IF ~final /\ shreg >= 5
        THEN [outp |-> shreg_plus3 % 8, cout |-> shreg_plus3 \div 8]
        ELSE [outp |-> shreg % 8, cout |-> shreg \div 8]

\* Outputs of the cell sa3s[level][i] of _DoubleDabble(width) for input inp.
RECURSIVE DoubleDabbleSa3(_, _, _, _)
DoubleDabbleSa3(width, inp, level, i) ==
    LET start_depth == 3 * (level + 1) - 1
        num_sa3s_in_level == width - start_depth
        root == i = start_depth
        final == IF root THEN level # 0 /\ num_sa3s_in_level = 1
                 ELSE i = start_depth + num_sa3s_in_level - 1
        cin == IF level = 0 THEN Bit(inp, width - i - 1)
               ELSE DoubleDabbleSa3(width, inp, level - 1, i - 1).cout
        cell_inp ==
            IF ~root THEN DoubleDabbleSa3(width, inp, level, i - 1).outp
            ELSE IF level = 0
            THEN Bit(inp, width - 2) + 2 * Bit(inp, width - 1)
            ELSE DoubleDabbleSa3(width, inp, level - 1, start_depth - 2).cout
                 + 2 * DoubleDabbleSa3(width, inp, level - 1,
                                       start_depth - 3).cout
    IN  ShiftAdd3(cin, cell_inp, final)

\* outp of _DoubleDabble(width), width >= 4: one 4-bit digit per level and
\* the couts the last level leaves over as the highest digit.
DoubleDabbleOutp(width, inp) ==
    LET num_bcd_digits == Base10Width(width)
        last == num_bcd_digits - 2
        num_sa3s_in_level == width - (3 * (last + 1) - 1)
        Cout(i) == IF i < num_sa3s_in_level - 1
                   THEN DoubleDabbleSa3(width, inp, last, width - i - 2).cout
                   ELSE 0
    IN  [level \in 0 .. (num_bcd_digits - 1) |->
            IF level <= last
            THEN LET sa3 == DoubleDabbleSa3(width, inp, level, width - 1)
                 IN  sa3.outp + 8 * sa3.cout
            ELSE Cout(0) + 2 * Cout(1) + 4 * Cout(2) + 8 * Cout(3)]

Mac24(x, y) == 24 * x + y

B2ToB1000Init ==
    [b2 |-> 0, c |-> 0, d0_guess |-> 0, d1_guess |-> 0,
     valid |-> <<0, 0>>, outp_valid |-> FALSE, payload |-> <<0, 0>>]

B2ToB1000NotStalled(b, outp_ready) == ~b.outp_valid \/ outp_ready

\* One clock edge of _B2ToB1000; valid is indexed from 1 here.
B2ToB1000Step(b, inp_valid, inp, outp_ready) ==
    LET not_stalled == B2ToB1000NotStalled(b, outp_ready)
        take == not_stalled /\ inp_valid
        b1 == [b EXCEPT !.valid[1] = IF take THEN 1 ELSE 0,
                        !.b2 = IF take THEN inp \div 2^10 ELSE @,
                        !.c = IF take
                              THEN Mac24(inp \div 2^10, inp % 2^10) % 2^15
                              ELSE @]
    IN  IF ~not_stalled THEN b1
        ELSE [b1 EXCEPT
                 !.valid[2] = b.valid[1],
                 !.d0_guess = Mac24(b.c \div 2^10, b.c % 2^10) % 2^11,
                 !.d1_guess = (b.b2 + b.c \div 2^10) % 2^10,
                 !.outp_valid = b.valid[2] = 1,
                 !.payload = IF b.d0_guess > 999
                             THEN <<(b.d0_guess + 24) % 2^10,
                                    (b.d1_guess + 1) % 2^10>>
                             ELSE <<b.d0_guess % 2^10, b.d1_guess>>]

\* BinaryToBCD(20): seven digits, the base-1000 branch of elaborate.
BcdDigits == 0 .. (Base10Width(20) - 1)

BinaryToBCDInit ==
    [b2b1000 |-> B2ToB1000Init, valid |-> FALSE,
     payload |-> [d \in BcdDigits |-> 0]]

BinaryToBCDInnerReady(t, outp_ready) == ~t.valid \/ outp_ready

BinaryToBCDInpReady(t, outp_ready) ==
    B2ToB1000NotStalled(t.b2b1000, BinaryToBCDInnerReady(t, outp_ready))

\* One clock edge of BinaryToBCD(20).
BinaryToBCDStep(t, inp_valid, inp, outp_ready) ==
    LET b == t.b2b1000
        b_ready == BinaryToBCDInnerReady(t, outp_ready)
        dd0 == DoubleDabbleOutp(10, b.payload[1])
        dd1 == DoubleDabbleOutp(10, b.payload[2])
        t1 == IF t.valid /\ outp_ready THEN [t EXCEPT !.valid = FALSE] ELSE t
        t2 == IF b.outp_valid /\ b_ready
              THEN [t1 EXCEPT !.valid = TRUE,
                              !.payload = [d \in BcdDigits |->
                                  IF d < 3 THEN dd0[d] ELSE dd1[d - 3]]]
              ELSE t1
    IN  [t2 EXCEPT !.b2b1000 = B2ToB1000Step(b, inp_valid, inp, b_ready)]

(***************************************************************************)
(* State                                                                   *)
(***************************************************************************)

VARIABLES
    dut,        \* the component instance that was constructed
    opx, opy,   \* operand bit patterns the environment presents in this run
    iv,         \* inp.valid during the current cycle
    isign,      \* inp.payload.sign during the current cycle
    rdy,        \* outp.ready during the current cycle
    res,        \* registers of MulticycleDiv(impl=Impl.RESTORING)
    nr,         \* registers of MulticycleDiv(impl=Impl.NON_RESTORING)
    ld,         \* registers of LongDivider
    pm,         \* registers of PipelinedMul
    mm,         \* registers of MulticycleMul
    g_sign,     \* history: sign tag of the last accepted operation
    g_age,      \* history: clock edges since its accepting edge (0: none)
    g_solo,     \* history: it was accepted while nothing was being computed
    g_idle,     \* history: ... and with no result left unconsumed either
    g_tag,      \* history: per pipeline stage, sign tag of the input it holds
    got,        \* history: per divider, the payload of its last output transfer
    accepted,   \* history: the multiplies accepted so far, oldest first
    delivered,  \* history: the payloads of the output transfers so far
    g_xfer,     \* history: clock edges since the last output transfer (0: none)
    bcd,        \* registers of BinaryToBCD(20)
    g_ops,      \* history: operand words of the last accepted operation
    build       \* a component being constructed and then elaborated

vars == <<dut, opx, opy, iv, isign, rdy, res, nr, ld, pm, mm,
          g_sign, g_age, g_solo, g_idle, g_tag, got, accepted,
          delivered, g_xfer, bcd, g_ops, build>>

Dividers == {"RES", "NR", "LONG"}

\* No output transfer yet.
NoPayload == [has |-> FALSE, sign |-> 0, q |-> 0, r |-> 0]

\* No operation accepted yet.
NoOps == [x |-> 0, y |-> 0]

\* Nothing is being constructed.
NoBuild == [cls |-> "none", width |-> 0, impl |-> "none", phase |-> "none"]

\* The history counter stops counting here.
AgeCap == Width + 5

DivPayload == [sign |-> isign, n |-> opx, d |-> opy]

MulPayload == [sign |-> isign, a |-> opx, b |-> opy]

InitDesigns ==
    /\ res = MulticycleDivInit
    /\ nr = MulticycleDivInit
    /\ ld = LongDividerInit
    /\ pm = PipelinedMulInit
    /\ mm = MulticycleMulInit
    /\ g_sign = 0
    /\ g_age = 0
    /\ g_solo = FALSE
    /\ g_idle = FALSE
    /\ g_tag = [i \in Stages |-> 0]
    /\ got = [k \in Dividers |-> NoPayload]
    /\ accepted = <<>>
    /\ delivered = <<>>
    /\ g_xfer = 0
    /\ bcd = BinaryToBCDInit
    /\ g_ops = NoOps

\* All registers at their reset values, nothing under construction.
InitRegs == InitDesigns /\ build = NoBuild

\* History of a component that holds one operation at a time.
Observe(accept, transfer, solo, idle) ==
    /\ g_sign' = IF accept THEN isign ELSE g_sign
    /\ g_solo' = IF accept THEN solo ELSE g_solo
    /\ g_idle' = IF accept THEN idle ELSE g_idle
    /\ g_age' = IF accept THEN 1
                ELSE IF transfer \/ g_age = 0 THEN 0
                ELSE IF g_age < AgeCap THEN g_age + 1 ELSE g_age

(***************************************************************************)
(* The dividers, each alone, under an arbitrary environment                *)
(***************************************************************************)

InitDiv ==
    /\ dut \in {"RES", "NR", "LONG"}
    /\ opx \in Words
    /\ opy \in Words
    /\ iv \in BOOLEAN
    /\ isign \in DivSigns
    /\ rdy \in BOOLEAN
    /\ InitRegs

\* One clock edge of MulticycleDiv(impl=Impl.RESTORING).
TickRes ==
    /\ dut = "RES"
    /\ res' = MulticycleDivStep("RESTORING", res, iv, DivPayload, rdy)
    /\ Observe(MulticycleDivInpReady(res) /\ iv,
               MulticycleDivOutpValid(res) /\ rdy, TRUE, TRUE)
    /\ iv' \in BOOLEAN
    /\ isign' \in DivSigns
    /\ rdy' \in BOOLEAN
    /\ UNCHANGED <<dut, opx, opy, nr, ld, pm, mm, g_tag, got, accepted,
                   delivered, g_xfer,
                   bcd, g_ops, build>>

\* One clock edge of MulticycleDiv(impl=Impl.NON_RESTORING).
TickNr ==
    /\ dut = "NR"
    /\ nr' = MulticycleDivStep("NON_RESTORING", nr, iv, DivPayload, rdy)
    /\ Observe(MulticycleDivInpReady(nr) /\ iv,
               MulticycleDivOutpValid(nr) /\ rdy, TRUE, TRUE)
    /\ iv' \in BOOLEAN
    /\ isign' \in DivSigns
    /\ rdy' \in BOOLEAN
    /\ UNCHANGED <<dut, opx, opy, res, ld, pm, mm, g_tag, got, accepted,
                   delivered, g_xfer,
                   bcd, g_ops, build>>

\* One clock edge of LongDivider.  The divider reads inp.payload on every
\* cycle of a computation: the environment holds the payload while one is
\* in progress.
TickLong ==
    /\ dut = "LONG"
    /\ ld' = LongDividerStep(ld, iv, DivPayload, rdy)
    /\ Observe(LongDividerInpReady(ld, rdy) /\ iv,
               ld.valid /\ rdy,
               ~LongDividerInProgress(ld),
               ~LongDividerInProgress(ld) /\ (ld.valid => rdy))
    /\ iv' \in BOOLEAN
    /\ isign' \in DivSigns
    /\ LongDividerInProgress(ld') => isign' = isign
    /\ rdy' \in BOOLEAN
    /\ UNCHANGED <<dut, opx, opy, res, nr, pm, mm, g_tag, got, accepted,
                   delivered, g_xfer,
                   bcd, g_ops, build>>

NextDiv == TickRes \/ TickNr \/ TickLong

SpecDiv == InitDiv /\ [][NextDiv]_vars

(***************************************************************************)
(* Reference arithmetic                                                    *)
(***************************************************************************)

\* n / d truncated toward zero, d # 0.
TruncDiv(n, d) ==
    IF (n >= 0) = (d > 0) THEN Abs(n) \div Abs(d) ELSE -(Abs(n) \div Abs(d))

\* The signed overflow pair n = -2^(W-1), d = -1.
Overflow(nb, db, sign) ==
    sign = SIGNED /\ nb = 2^(Width - 1) /\ db = 2^Width - 1

\* The MulticycleDiv instance under test and what is on its outp.
Mcd == IF dut = "RES" THEN res ELSE nr

McdDone == dut \in {"RES", "NR"} /\ MulticycleDivOutpValid(Mcd)

\* C1: for d # 0, the signed overflow pair excluded, a MulticycleDiv of
\* either implementation presents q = n / d truncated toward zero and
\* r = n - q * d, all four words read according to the accepted sign tag.
C1_QuotientRemainder ==
    (McdDone /\ opy # 0 /\ ~Overflow(opx, opy, g_sign)) =>
        LET n == DivOperand(opx, g_sign)
            d == DivOperand(opy, g_sign)
            q == DivOperand(Mcd.outp.q, g_sign)
            r == DivOperand(Mcd.outp.r, g_sign)
        IN  q = TruncDiv(n, d) /\ r = n - q * d

C1_Witness ==
    /\ dut = "NR"
    /\ MulticycleDivOutpValid(nr)
    /\ g_sign = SIGNED
    /\ DivOperand(opx, SIGNED) < 0
    /\ DivOperand(opy, SIGNED) > 1
    /\ nr.outp.r # 0
    /\ nr.outp.q # 0

\* C2: for d = 0, under either sign tag, a MulticycleDiv of either
\* implementation presents a quotient with all W bits set and a remainder
\* whose bits are those of the dividend.
C2_DivideByZero ==
    (McdDone /\ opy = 0) =>
        /\ Mcd.outp.q = 2^Width - 1
        /\ \A i \in 0 .. (Width - 1) : Bit(Mcd.outp.q, i) = 1
        /\ Mcd.outp.r = opx

C2_Witness ==
    /\ dut = "RES"
    /\ MulticycleDivOutpValid(res)
    /\ opy = 0
    /\ g_sign = SIGNED
    /\ DivOperand(opx, SIGNED) < -1
    /\ res.outp.r = opx

\* C3: for the SIGNED divide of n = -2^(W-1) by d = -1, a MulticycleDiv of
\* either implementation presents q = -2^(W-1) and r = 0.
C3_SignedOverflow ==
    (McdDone /\ g_sign = SIGNED /\ ToSigned(opx, Width) = -(2^(Width - 1))
             /\ ToSigned(opy, Width) = -1) =>
        /\ ToSigned(Mcd.outp.q, Width) = -(2^(Width - 1))
        /\ Mcd.outp.r = 0

C3_Witness ==
    /\ dut = "NR"
    /\ MulticycleDivOutpValid(nr)
    /\ g_sign = SIGNED
    /\ Overflow(opx, opy, SIGNED)
    /\ nr.outp.q = opx

\* The computation LongDivider accepted while it was computing nothing
\* else has finished and its result is on outp.
LongDone ==
    dut = "LONG" /\ ld.valid /\ ~LongDividerInProgress(ld) /\ g_solo

McdLatency == IF dut = "RES" THEN Width + 3 ELSE Width + 4

\* C6: the accepting clock edge counted as the first, a MulticycleDiv has
\* outp.valid deasserted after each of the first W+2 (RESTORING) or W+3
\* (NON_RESTORING) edges and asserted right after the next one, whatever
\* the operands.
C6_DivLatency ==
    dut \in {"RES", "NR"} =>
        /\ (g_age >= 1 /\ g_age < McdLatency) => ~MulticycleDivOutpValid(Mcd)
        /\ g_age = McdLatency => MulticycleDivOutpValid(Mcd)

C6_Witness ==
    /\ dut = "NR"
    /\ g_age = Width + 4
    /\ MulticycleDivOutpValid(nr)
    /\ opy = 0

(***************************************************************************)
(* The three dividers side by side on the same input                       *)
(***************************************************************************)

\* None of the three dividers holds an operation or an unconsumed result.
AllIdle(r, n, l) ==
    /\ MulticycleDivInpReady(r)
    /\ MulticycleDivInpReady(n)
    /\ ~LongDividerInProgress(l)
    /\ ~l.valid

EquivValid(k) ==
    CASE k = "RES" -> MulticycleDivOutpValid(res)
      [] k = "NR" -> MulticycleDivOutpValid(nr)
      [] k = "LONG" -> ld.valid

EquivOutp(k) ==
    CASE k = "RES" -> res.outp
      [] k = "NR" -> nr.outp
      [] k = "LONG" -> LongDividerOutp(ld)

InitEquiv ==
    /\ dut = "ALL"
    /\ opx \in Words
    /\ opy \in Words
    /\ iv \in BOOLEAN
    /\ isign \in DivSigns
    /\ rdy \in BOOLEAN
    /\ InitRegs

\* One clock edge of the three dividers, their inp and outp.ready wired
\* together.  The environment offers an input when all three can take it.
TickAll ==
    /\ dut = "ALL"
    /\ res' = MulticycleDivStep("RESTORING", res, iv, DivPayload, rdy)
    /\ nr' = MulticycleDivStep("NON_RESTORING", nr, iv, DivPayload, rdy)
    /\ ld' = LongDividerStep(ld, iv, DivPayload, rdy)
    /\ Observe(iv, FALSE, TRUE, TRUE)
    /\ got' = [k \in Dividers |->
                  IF iv THEN NoPayload
                  ELSE IF EquivValid(k) /\ rdy
                  THEN [has |-> TRUE, sign |-> EquivOutp(k).sign,
                        q |-> EquivOutp(k).q, r |-> EquivOutp(k).r]
                  ELSE got[k]]
    /\ iv' \in IF AllIdle(res', nr', ld') THEN BOOLEAN ELSE {FALSE}
    /\ isign' \in DivSigns
    /\ LongDividerInProgress(ld') => isign' = isign
    /\ rdy' \in BOOLEAN
    /\ UNCHANGED <<dut, opx, opy, pm, mm, g_tag, accepted, delivered, g_xfer,
                   bcd, g_ops, build>>

NextEquiv == TickAll

SpecEquiv == InitEquiv /\ [][NextEquiv]_vars

\* The payload divider k has on outp, or else the last one it delivered.
Shown(k) ==
    IF EquivValid(k)
    THEN [has |-> TRUE, sign |-> EquivOutp(k).sign,
          q |-> EquivOutp(k).q, r |-> EquivOutp(k).r]
    ELSE got[k]

\* C5: run side by side on the same input, whatever the operands and the
\* sign tag, the three dividers present and deliver the same output
\* payload, bit for bit in q, r and sign.
C5_DividersAgree ==
    dut = "ALL" =>
        \A j, k \in Dividers :
            (Shown(j).has /\ Shown(k).has) => Shown(j) = Shown(k)

C5_Witness ==
    /\ dut = "ALL"
    /\ \A k \in Dividers : Shown(k).has
    /\ got["LONG"].has
    /\ MulticycleDivOutpValid(nr)
    /\ g_sign = SIGNED
    /\ DivOperand(opx, SIGNED) < 0
    /\ DivOperand(opy, SIGNED) > 1
    /\ nr.outp.r # 0

(***************************************************************************)
(* The multipliers, each alone, under an arbitrary environment             *)
(***************************************************************************)

InitPipe ==
    /\ dut = "PIPE"
    /\ opx \in Words
    /\ opy \in Words
    /\ iv \in BOOLEAN
    /\ isign \in MulSigns
    /\ rdy \in BOOLEAN
    /\ InitRegs

InitMMul ==
    /\ dut = "MMUL"
    /\ opx \in Words
    /\ opy \in Words
    /\ iv \in BOOLEAN
    /\ isign \in MulSigns
    /\ rdy \in BOOLEAN
    /\ InitRegs

\* The sign tags move through the stages as the stage registers do.
ShiftTags(accept, inp_ready) ==
    g_tag' = [i \in Stages |->
                 IF i = 0
                 THEN IF accept THEN isign ELSE g_tag[0]
                 ELSE IF inp_ready THEN g_tag[i - 1] ELSE g_tag[i]]

\* One clock edge of PipelinedMul.
TickPipe ==
    /\ dut = "PIPE"
    /\ pm' = PipelinedMulStep(pm, iv, MulPayload, rdy)
    /\ ShiftTags(PipelinedMulInpReady(pm, rdy) /\ iv,
                 PipelinedMulInpReady(pm, rdy))
    /\ iv' \in BOOLEAN
    /\ isign' \in MulSigns
    /\ rdy' \in BOOLEAN
    /\ UNCHANGED <<dut, opx, opy, res, nr, ld, mm, g_sign, g_age, g_solo,
                   g_idle, got, accepted, delivered, g_xfer,
                   bcd, g_ops, build>>

\* One clock edge of MulticycleMul.
TickMMul ==
    /\ dut = "MMUL"
    /\ mm' = MulticycleMulStep(mm, iv, MulPayload, rdy)
    /\ Observe(MulticycleMulInpReady(mm, rdy) /\ iv,
               mm.valid /\ rdy,
               ~MulticycleMulInProgress(mm),
               ~MulticycleMulInProgress(mm) /\ (mm.valid => rdy))
    /\ iv' \in BOOLEAN
    /\ isign' \in MulSigns
    /\ rdy' \in BOOLEAN
    /\ UNCHANGED <<dut, opx, opy, res, nr, ld, pm, g_tag, got, accepted,
                   delivered, g_xfer,
                   bcd, g_ops, build>>

NextPipe == TickPipe

SpecPipe == InitPipe /\ [][NextPipe]_vars

NextMMul == TickMMul

SpecMMul == InitMMul /\ [][NextMMul]_vars

\* The exact product of the operand words under a sign tag.
MulRef(ab, bb, sign) ==
    CASE sign = UNSIGNED -> ab * bb
      [] sign = SIGNED -> ToSigned(ab, Width) * ToSigned(bb, Width)
      [] sign = SIGNED_UNSIGNED -> ToSigned(ab, Width) * bb

\* The 2W-bit output word read under a sign tag.
MulRead(o, sign) == IF sign = UNSIGNED THEN o ELSE ToSigned(o, 2 * Width)

\* C7: whatever the operands and the sign tag, the o that PipelinedMul
\* presents with outp.valid is the exact 2W-bit product of the operands of
\* the accepted input it belongs to, both read under that input's sign tag.
C7_PipelinedProduct ==
    (dut = "PIPE" /\ PipelinedMulOutpValid(pm)) =>
        MulRead(PipelinedMulOutp(pm).o, g_tag[Width - 1])
            = MulRef(opx, opy, g_tag[Width - 1])

C7_Witness ==
    /\ dut = "PIPE"
    /\ PipelinedMulOutpValid(pm)
    /\ g_tag[Width - 1] = SIGNED
    /\ opx = 2^(Width - 1)
    /\ ToSigned(opy, Width) < -1
    /\ PipelinedMulOutp(pm).o = 2^(Width - 1) * (-ToSigned(opy, Width))

\* The multiply MulticycleMul accepted while it was computing nothing else
\* has finished and its result is on outp.
MMulDone ==
    dut = "MMUL" /\ mm.valid /\ ~MulticycleMulInProgress(mm) /\ g_solo

MaxMuls == 3

\* One clock edge of PipelinedMul.  Each accepted multiply is recorded with
\* eff, the number of clock edges since its accepting edge (counted as the
\* first) on which the pipeline was not stalled by outp.valid & ~outp.ready,
\* and with stalled, whether a stall occurred before it had seen W such
\* edges; each output transfer is recorded with the payload it carried.
TickPipeOrder ==
    LET inp_ready == PipelinedMulInpReady(pm, rdy)
        stall == PipelinedMulOutpValid(pm) /\ ~rdy
        aged == [i \in 1 .. Len(accepted) |->
                    [accepted[i] EXCEPT
                        !.eff = IF stall \/ @ > Width THEN @ ELSE @ + 1,
                        !.stalled = @ \/ (stall /\ accepted[i].eff < Width)]]
    IN  /\ dut = "PIPE"
        /\ pm' = PipelinedMulStep(pm, iv, MulPayload, rdy)
        /\ ShiftTags(inp_ready /\ iv, inp_ready)
        /\ accepted' = IF inp_ready /\ iv
                       THEN Append(aged, [sign |-> isign, eff |-> 1,
                                          stalled |-> FALSE])
                       ELSE aged
        /\ delivered' = IF PipelinedMulOutpValid(pm) /\ rdy
                        THEN Append(delivered, PipelinedMulOutp(pm))
                        ELSE delivered
        /\ iv' \in IF Len(accepted') < MaxMuls THEN BOOLEAN ELSE {FALSE}
        /\ isign' \in MulSigns
        /\ rdy' \in BOOLEAN
        /\ UNCHANGED <<dut, opx, opy, res, nr, ld, mm, g_sign, g_age, g_solo,
                       g_idle, got, g_xfer,
                       bcd, g_ops, build>>

NextPipeOrder == TickPipeOrder

SpecPipeOrder == InitPipe /\ [][NextPipeOrder]_vars

\* The output payload owed to an accepted multiply.
Owed(rec) ==
    [sign |-> rec.sign, o |-> ToUnsigned(MulRef(opx, opy, rec.sign), 2 * Width)]

\* No stage of the pipeline holds a valid multiply.
PipelineEmpty == \A i \in Stages : pm.pipeline_in[i].v = 0

\* C9: the output transfers of PipelinedMul carry the products of the
\* accepted inputs, each once and in acceptance order: what has been
\* delivered is a prefix of what is owed, and once no stage holds a valid
\* multiply every accepted input has been delivered.
C9_ExactlyOnceInOrder ==
    dut = "PIPE" =>
        /\ Len(delivered) <= Len(accepted)
        /\ \A i \in 1 .. Len(delivered) :
               i <= Len(accepted) => delivered[i] = Owed(accepted[i])
        /\ PipelineEmpty => Len(delivered) = Len(accepted)

\* C10: a stall of k cycles delays every multiply in flight by exactly k
\* cycles and corrupts none: a multiply is on outp, valid and with its own
\* product, exactly when W unstalled clock edges have passed since it was
\* accepted, it is the next one to be delivered then, and it has not been
\* delivered before nor is it still undelivered after.
C10_StallDelaysByK ==
    dut = "PIPE" =>
        \A i \in 1 .. Len(accepted) :
            /\ accepted[i].eff < Width => Len(delivered) < i
            /\ accepted[i].eff = Width =>
                   /\ PipelinedMulOutpValid(pm)
                   /\ PipelinedMulOutp(pm) = Owed(accepted[i])
                   /\ Len(delivered) = i - 1
            /\ accepted[i].eff > Width =>
                   /\ Len(delivered) >= i
                   /\ delivered[i] = Owed(accepted[i])

(***************************************************************************)
(* Handshake and sign tags                                                 *)
(***************************************************************************)

\* C11: in every reachable state of PipelinedMul, inp.ready is deasserted
\* exactly when a stall is on, that is when the last stage holds a valid
\* multiply and outp.ready is low.
C11_InpReady ==
    dut = "PIPE" =>
        (PipelinedMulInpReady(pm, rdy)
            <=> ~(pm.pipeline_in[Width - 1].v = 1 /\ ~rdy))

C11_Witness ==
    /\ dut = "PIPE"
    /\ pm.pipeline_in[Width - 1].v = 1
    /\ ~rdy
    /\ iv
    /\ ~PipelinedMulInpReady(pm, rdy)

\* Either multiplier, alone, under an arbitrary environment.
InitMul == InitPipe \/ InitMMul

NextMul == TickPipe \/ TickMMul

SpecMul == InitMul /\ [][NextMul]_vars

C14_DivOutputHeld ==
    [][(dut \in {"RES", "NR"} /\ MulticycleDivOutpValid(Mcd) /\ ~rdy) =>
           /\ MulticycleDivOutpValid(Mcd')
           /\ Mcd'.outp = Mcd.outp
           /\ ~MulticycleDivInpReady(Mcd)
           /\ ~MulticycleDivInpReady(Mcd')]_vars

C14_Witness ==
    /\ dut = "NR"
    /\ MulticycleDivOutpValid(nr)
    /\ ~rdy
    /\ iv
    /\ isign # g_sign
    /\ g_age = AgeCap
    /\ nr.outp.q # 0

\* C15: on every cycle where MulticycleMul asserts outp.valid and
\* outp.ready is low, outp.valid is still asserted on the next cycle and
\* outp.payload (o, sign) is the same, whatever the input side does.
C15_MulOutputHeld ==
    [][(dut = "MMUL" /\ mm.valid /\ ~rdy) =>
           /\ mm'.valid
           /\ MulticycleMulOutp(mm') = MulticycleMulOutp(mm)]_vars

\* C16: on every cycle where LongDivider asserts outp.valid and outp.ready
\* is low, outp.valid is still asserted on the next cycle and outp.payload
\* (q, r, sign) is the same, whatever the input side does.
C16_LongOutputHeld ==
    [][(dut = "LONG" /\ ld.valid /\ ~rdy) =>
           /\ ld'.valid
           /\ LongDividerOutp(ld') = LongDividerOutp(ld)]_vars

(***************************************************************************)
(* Latency and throughput                                                  *)
(***************************************************************************)

\* C17: the accepting clock edge counted as the first, a multiply that
\* meets no stall on its way through PipelinedMul is on outp, with
\* outp.valid and not delivered yet, right after the W-th edge; before
\* that it has not been delivered and whatever outp shows as valid belongs
\* to a multiply accepted earlier.
C17_PipeLatency ==
    dut = "PIPE" =>
        \A i \in 1 .. Len(accepted) :
            ~accepted[i].stalled =>
                /\ accepted[i].eff = Width =>
                       /\ PipelinedMulOutpValid(pm)
                       /\ PipelinedMulOutp(pm) = Owed(accepted[i])
                       /\ Len(delivered) < i
                /\ accepted[i].eff < Width =>
                       /\ Len(delivered) < i
                       /\ PipelinedMulOutpValid(pm) =>
                              \E j \in 1 .. (i - 1) : accepted[j].eff = Width

C17_Witness ==
    /\ dut = "PIPE"
    /\ Len(accepted) = 3
    /\ ~accepted[2].stalled
    /\ accepted[2].eff = Width
    /\ accepted[2].sign = SIGNED
    /\ accepted[3].eff = Width - 1
    /\ PipelinedMulOutpValid(pm)
    /\ Len(delivered) = 1
    /\ ToSigned(opx, Width) < 0
    /\ ToSigned(opy, Width) < 0

\* C18: the accepting clock edge counted as the first, a MulticycleMul that
\* was idle when it accepted a multiply has outp.valid deasserted after each
\* of the first W-1 edges and asserted right after the W-th, whatever the
\* operands.
C18_MMulLatency ==
    (dut = "MMUL" /\ g_idle) =>
        /\ (g_age >= 1 /\ g_age < Width) => ~mm.valid
        /\ g_age = Width => mm.valid

C18_Witness ==
    /\ dut = "MMUL"
    /\ g_idle
    /\ g_age = Width
    /\ mm.valid
    /\ g_sign = SIGNED
    /\ ToSigned(opy, Width) < 0

\* C19: the accepting clock edge counted as the first, a LongDivider that
\* was idle when it accepted a divide has outp.valid deasserted after each
\* of the first W-1 edges and asserted right after the W-th, whatever the
\* operands.
C19_LongLatency ==
    (dut = "LONG" /\ g_idle) =>
        /\ (g_age >= 1 /\ g_age < Width) => ~ld.valid
        /\ g_age = Width => ld.valid

C19_Witness ==
    /\ dut = "LONG"
    /\ g_idle
    /\ g_age = Width
    /\ ld.valid
    /\ opy = 0

\* A MulticycleDiv whose environment holds inp.valid and outp.ready
\* asserted on every cycle.
InitDivBusy ==
    /\ dut \in {"RES", "NR"}
    /\ opx \in Words
    /\ opy \in Words
    /\ iv = TRUE
    /\ isign \in DivSigns
    /\ rdy = TRUE
    /\ InitRegs

\* Clock edges, the last accepting edge included, since that edge, and the
\* same for the last output transfer.
Gaps(accept, transfer) ==
    /\ g_sign' = IF accept THEN isign ELSE g_sign
    /\ g_age' = IF accept THEN 1
                ELSE IF g_age = 0 THEN 0
                ELSE IF g_age < 2 * AgeCap THEN g_age + 1 ELSE g_age
    /\ g_xfer' = IF transfer THEN 1
                 ELSE IF g_xfer = 0 THEN 0
                 ELSE IF g_xfer < 2 * AgeCap THEN g_xfer + 1 ELSE g_xfer

\* One clock edge of MulticycleDiv(impl=Impl.RESTORING), inp.valid and
\* outp.ready held.
TickResBusy ==
    /\ dut = "RES"
    /\ res' = MulticycleDivStep("RESTORING", res, iv, DivPayload, rdy)
    /\ Gaps(MulticycleDivInpReady(res) /\ iv,
            MulticycleDivOutpValid(res) /\ rdy)
    /\ isign' \in DivSigns
    /\ UNCHANGED <<dut, opx, opy, iv, rdy, nr, ld, pm, mm, g_solo, g_idle,
                   g_tag, got, accepted, delivered,
                   bcd, g_ops, build>>

\* One clock edge of MulticycleDiv(impl=Impl.NON_RESTORING), inp.valid and
\* outp.ready held.
TickNrBusy ==
    /\ dut = "NR"
    /\ nr' = MulticycleDivStep("NON_RESTORING", nr, iv, DivPayload, rdy)
    /\ Gaps(MulticycleDivInpReady(nr) /\ iv,
            MulticycleDivOutpValid(nr) /\ rdy)
    /\ isign' \in DivSigns
    /\ UNCHANGED <<dut, opx, opy, iv, rdy, res, ld, pm, mm, g_solo, g_idle,
                   g_tag, got, accepted, delivered,
                   bcd, g_ops, build>>

NextDivBusy == TickResBusy \/ TickNrBusy

SpecDivBusy == InitDivBusy /\ [][NextDivBusy]_vars

\* C20: with inp.valid and outp.ready held asserted, consecutive accepting
\* edges of a MulticycleDiv, and consecutive output transfers, are W+3
\* (RESTORING) or W+4 (NON_RESTORING) clock cycles apart: when the next
\* accepting edge (output transfer) is about to happen, that many edges
\* have passed since the previous one, itself included.
C20_DivThroughput ==
    (dut \in {"RES", "NR"} /\ iv /\ rdy) =>
        /\ (MulticycleDivInpReady(Mcd) /\ g_age > 0) => g_age = McdLatency
        /\ (MulticycleDivOutpValid(Mcd) /\ g_xfer > 0) =>
               g_xfer = McdLatency

\* What a divider is to present for the operand words nb, db under sign.
DivRef(nb, db, sign) ==
    LET n == DivOperand(nb, sign)
        d == DivOperand(db, sign)
    IN  IF db = 0 THEN [q |-> 2^Width - 1, r |-> nb]
        ELSE IF Overflow(nb, db, sign) THEN [q |-> 2^(Width - 1), r |-> 0]
        ELSE [q |-> ToUnsigned(TruncDiv(n, d), Width),
              r |-> ToUnsigned(n - TruncDiv(n, d) * d, Width)]

\* A MulticycleMul or a LongDivider whose environment holds inp.valid and
\* outp.ready asserted on every cycle.
InitSeqBusy ==
    /\ dut \in {"MMUL", "LONG"}
    /\ opx \in Words
    /\ opy \in Words
    /\ iv = TRUE
    /\ isign \in IF dut = "MMUL" THEN MulSigns ELSE DivSigns
    /\ rdy = TRUE
    /\ InitRegs

\* The input stream of a sender that always has an operation to offer: the
\* payload is held until the edge that accepts it and is that of the next
\* operation afterwards.
NextOperation(accept, signs) ==
    /\ g_ops' = IF accept THEN [x |-> opx, y |-> opy] ELSE g_ops
    /\ IF accept
       THEN opx' \in Words /\ opy' \in Words /\ isign' \in signs
       ELSE UNCHANGED <<opx, opy, isign>>

\* One clock edge of MulticycleMul, inp.valid and outp.ready held.
TickMMulBusy ==
    /\ dut = "MMUL"
    /\ mm' = MulticycleMulStep(mm, iv, MulPayload, rdy)
    /\ Gaps(MulticycleMulInpReady(mm, rdy) /\ iv, mm.valid /\ rdy)
    /\ NextOperation(MulticycleMulInpReady(mm, rdy) /\ iv, MulSigns)
    /\ UNCHANGED <<dut, iv, rdy, res, nr, ld, pm, g_solo, g_idle, g_tag, got,
                   accepted, delivered, bcd, build>>

\* One clock edge of LongDivider, inp.valid and outp.ready held.
TickLongBusy ==
    /\ dut = "LONG"
    /\ ld' = LongDividerStep(ld, iv, DivPayload, rdy)
    /\ Gaps(LongDividerInpReady(ld, rdy) /\ iv, ld.valid /\ rdy)
    /\ NextOperation(LongDividerInpReady(ld, rdy) /\ iv, DivSigns)
    /\ UNCHANGED <<dut, iv, rdy, res, nr, pm, mm, g_solo, g_idle, g_tag, got,
                   accepted, delivered, bcd, build>>

NextSeqBusy == TickMMulBusy \/ TickLongBusy

SpecSeqBusy == InitSeqBusy /\ [][NextSeqBusy]_vars

\* The accepting and transferring edges of the component under test are W
\* clock cycles apart and an output transfer is an accepting edge too.
SeqPeriod(inp_ready, outp_valid) ==
    /\ (inp_ready /\ g_age > 0) => g_age = Width
    /\ (outp_valid /\ g_xfer > 0) => g_xfer = Width
    /\ outp_valid => inp_ready

\* C21: with inp.valid and outp.ready held asserted, MulticycleMul and
\* LongDivider accept the next input on the clock edge that transfers the
\* previous result, consecutive accepting edges and consecutive output
\* transfers are W clock cycles apart, and every result transferred is the
\* correct one for the operands accepted W edges before.
C21_SeqThroughput ==
    /\ (dut = "MMUL" /\ iv /\ rdy) =>
           /\ SeqPeriod(MulticycleMulInpReady(mm, rdy), mm.valid)
           /\ mm.valid =>
                  MulRead(MulticycleMulOutp(mm).o, g_sign)
                      = MulRef(g_ops.x, g_ops.y, g_sign)
    /\ (dut = "LONG" /\ iv /\ rdy) =>
           /\ SeqPeriod(LongDividerInpReady(ld, rdy), ld.valid)
           /\ ld.valid =>
                  /\ LongDividerOutp(ld).q = DivRef(g_ops.x, g_ops.y, g_sign).q
                  /\ LongDividerOutp(ld).r = DivRef(g_ops.x, g_ops.y, g_sign).r

\* The timing half of C21 alone.
C21_Period ==
    /\ (dut = "MMUL" /\ iv /\ rdy) =>
           SeqPeriod(MulticycleMulInpReady(mm, rdy), mm.valid)
    /\ (dut = "LONG" /\ iv /\ rdy) =>
           SeqPeriod(LongDividerInpReady(ld, rdy), ld.valid)

\* The MulticycleMul half of C21 alone.
C21_MMulOnly == dut = "MMUL" => C21_SeqThroughput

(***************************************************************************)
(* Bubbles, occupancy and result lifetime                                  *)
(***************************************************************************)

\* C22: PipelinedMul asserts outp.valid only for a slot that was filled by
\* an accepted input, that is, only when some accepted multiply has seen
\* exactly W unstalled clock edges; the slot of a cycle without an input
\* transfer arrives at the output with outp.valid deasserted.
C22_BubbleNotValid ==
    dut = "PIPE" =>
        (PipelinedMulOutpValid(pm) =>
             \E i \in 1 .. Len(accepted) : accepted[i].eff = Width)

C22_Witness ==
    /\ dut = "PIPE"
    /\ Len(accepted) = 2
    /\ Len(delivered) = 1
    /\ accepted[1].eff = Width + 1
    /\ accepted[2].eff = Width - 1
    /\ ~PipelinedMulOutpValid(pm)
    /\ pm.pipeline_in[Width - 2].v = 1

\* C23: from the clock edge that accepts a divide until the edge that
\* transfers its result MulticycleDiv is out of IDLE and keeps inp.ready
\* deasserted, so no second divide is accepted meanwhile; with no divide in
\* flight it is in IDLE with inp.ready asserted.
C23_OneDivideInFlight ==
    dut \in {"RES", "NR"} =>
        /\ g_age > 0 => (Mcd.fsm # "IDLE" /\ ~MulticycleDivInpReady(Mcd))
        /\ g_age = 0 => (Mcd.fsm = "IDLE" /\ MulticycleDivInpReady(Mcd))

C23_Witness ==
    /\ dut = "RES"
    /\ g_age = Width
    /\ iv
    /\ isign # g_sign
    /\ Mcd.fsm = "DIVIDE_LOOP"
    /\ ~MulticycleDivInpReady(Mcd)

\* C24: the clock edge that transfers a result of MulticycleDiv, or a result
\* of LongDivider with no divide accepted after the one that produced it,
\* leaves outp.valid deasserted on the following cycle, and outp.valid does
\* not come back while no further divide is in flight: one transfer per
\* divide.
C24_ValidForOneTransfer ==
    [][/\ dut \in {"RES", "NR"} =>
              /\ (MulticycleDivOutpValid(Mcd) /\ rdy) =>
                     ~MulticycleDivOutpValid(Mcd')
              /\ (Mcd.fsm = "IDLE" /\ ~iv) => ~MulticycleDivOutpValid(Mcd')
       /\ dut = "LONG" =>
              /\ (ld.valid /\ rdy /\ ~LongDividerInProgress(ld)) => ~ld'.valid
              /\ (~ld.valid /\ ~LongDividerInProgress(ld)) => ~ld'.valid]_vars

C24_Witness ==
    /\ dut = "LONG"
    /\ g_sign = SIGNED
    /\ g_age = 0
    /\ ~ld.valid
    /\ ~LongDividerInProgress(ld)
    /\ LongDividerOutp(ld).q # 0
    /\ LongDividerOutp(ld).r # 0

(***************************************************************************)
(* Sign symmetry of the signed divide                                      *)
(***************************************************************************)

\* A MulticycleDiv clocked until outp.valid, at most fuel edges, with
\* inp.valid low and outp.ready high.
RECURSIVE McdRun(_, _, _, _)
McdRun(impl, m, p, fuel) ==
    IF MulticycleDivOutpValid(m) \/ fuel = 0 THEN m
    ELSE McdRun(impl, MulticycleDivStep(impl, m, FALSE, p, TRUE), p, fuel - 1)

\* A LongDivider clocked until outp.valid, at most fuel edges, with inp.valid
\* low, inp.payload held and outp.ready high.
RECURSIVE LongRun(_, _, _)
LongRun(l, p, fuel) ==
    IF l.valid \/ fuel = 0 THEN l
    ELSE LongRun(LongDividerStep(l, FALSE, p, TRUE), p, fuel - 1)

\* What divider k presents for the signed divide of the words nb, db when it
\* is given that divide alone, right after reset.
SignedDivideAlone(k, nb, db) ==
    LET p == [sign |-> SIGNED, n |-> nb, d |-> db]
        impl == IF k = "RES" THEN "RESTORING" ELSE "NON_RESTORING"
        o == IF k = "LONG"
             THEN LongDividerOutp(
                      LongRun(LongDividerStep(LongDividerInit, TRUE, p, TRUE),
                              p, AgeCap))
             ELSE McdRun(impl,
                         MulticycleDivStep(impl, MulticycleDivInit, TRUE, p,
                                           TRUE),
                         p, AgeCap).outp
    IN  [q |-> ToSigned(o.q, Width), r |-> ToSigned(o.r, Width)]

\* The two's complement of a word.
NegWord(x) == ToUnsigned(-ToSigned(x, Width), Width)

\* A signed result of the divide of opx by opy is on outp of the divider
\* under test; d is not 0 and neither operand is -2^(W-1).
SignedDone ==
    /\ McdDone \/ LongDone
    /\ g_sign = SIGNED
    /\ opy # 0
    /\ opx # 2^(Width - 1)
    /\ opy # 2^(Width - 1)

BcdSamples == 1000

\* The binary inputs tried: a stride through 0 .. 10^6 - 1, the value of the
\* repository's test bench, the borders of the base-1000 digits and of the
\* claimed range, and two 20-bit values beyond 10^6 - 1.
BcdInputs ==
    {(k * 104729) % 1000000 : k \in 0 .. (BcdSamples - 1)}
        \cup {9, 10, 999, 1000, 1023, 1024, 23999, 24000, 543210, 999000,
              999999, 1000000, 1048575}

\* A BinaryToBCD(20) that is offered the value opx whenever inp.valid is
\* asserted.
InitBcd ==
    /\ dut = "BCD"
    /\ opx \in BcdInputs
    /\ opy = 0
    /\ iv \in BOOLEAN
    /\ isign = 0
    /\ rdy \in BOOLEAN
    /\ InitRegs

\* One clock edge of BinaryToBCD(20).
TickBcd ==
    /\ dut = "BCD"
    /\ bcd' = BinaryToBCDStep(bcd, iv, opx, rdy)
    /\ iv' \in BOOLEAN
    /\ rdy' \in BOOLEAN
    /\ UNCHANGED <<dut, opx, opy, isign, res, nr, ld, pm, mm, g_sign, g_age,
                   g_solo, g_idle, g_tag, got, accepted, delivered, g_xfer,
                   g_ops, build>>

NextBcd == TickBcd

SpecBcd == InitBcd /\ [][NextBcd]_vars

\* The decimal digit of weight 10^i of x.
DecimalDigit(x, i) == (x \div 10^i) % 10

\* C26: for every input x < 10^6 accepted by BinaryToBCD(width=20),
\* whenever outp.valid is asserted outp.payload[i] is the decimal digit of
\* weight 10^i of x, the least significant digit at index 0.
C26_BcdDigits ==
    (dut = "BCD" /\ bcd.valid /\ opx < 1000000) =>
        \A i \in BcdDigits : bcd.payload[i] = DecimalDigit(opx, i)

C26_Witness ==
    /\ dut = "BCD"
    /\ bcd.valid
    /\ ~rdy
    /\ opx = 543210
    /\ bcd.b2b1000.outp_valid
    /\ bcd.payload = [i \in BcdDigits |-> IF i = 6 THEN 0 ELSE i]

\* Number of conversions a run of the ordering check accepts.
MaxConvs == 4

\* The inputs of the ordering check.
BcdFew == {7, 543210, 999999}

\* A BinaryToBCD(20) whose sender offers a value of BcdFew with each
\* assertion of inp.valid.
InitBcdOrder ==
    /\ dut = "BCD"
    /\ opx \in BcdFew
    /\ opy = 0
    /\ iv \in BOOLEAN
    /\ isign = 0
    /\ rdy \in BOOLEAN
    /\ InitRegs

\* One clock edge of BinaryToBCD(20), with the record of the values accepted
\* and of the payloads transferred. The sender keeps inp.payload while
\* inp.valid is asserted and the input has not been accepted.
TickBcdOrder ==
    LET accept == BinaryToBCDInpReady(bcd, rdy) /\ iv
    IN  /\ dut = "BCD"
        /\ bcd' = BinaryToBCDStep(bcd, iv, opx, rdy)
        /\ accepted' = IF accept THEN Append(accepted, opx) ELSE accepted
        /\ delivered' = IF bcd.valid /\ rdy
                        THEN Append(delivered, bcd.payload) ELSE delivered
        /\ iv' \in IF Len(accepted') < MaxConvs THEN BOOLEAN ELSE {FALSE}
        /\ IF iv /\ ~accept THEN opx' = opx ELSE opx' \in BcdFew
        /\ rdy' \in BOOLEAN
        /\ UNCHANGED <<dut, opy, isign, res, nr, ld, pm, mm, g_sign, g_age,
                       g_solo, g_idle, g_tag, got, g_xfer, g_ops, build>>

NextBcdOrder == TickBcdOrder

SpecBcdOrder == InitBcdOrder /\ [][NextBcdOrder]_vars

\* Neither the base-1000 pipeline nor outp holds a valid conversion.
BcdEmpty ==
    /\ ~bcd.valid
    /\ ~bcd.b2b1000.outp_valid
    /\ bcd.b2b1000.valid = <<0, 0>>

\* C27: the output transfers of BinaryToBCD(20) carry the digits of the
\* accepted inputs, each once and in acceptance order, under every pattern
\* of inp.valid and outp.ready: what has been transferred is a prefix of
\* what is owed, and once nothing valid is left inside every accepted input
\* has been transferred.
C27_BcdExactlyOnceInOrder ==
    dut = "BCD" =>
        /\ Len(delivered) <= Len(accepted)
        /\ \A i \in 1 .. Len(delivered) :
               i <= Len(accepted) =>
                   delivered[i] = [d \in BcdDigits |->
                                      DecimalDigit(accepted[i], d)]
        /\ BcdEmpty => Len(delivered) = Len(accepted)

(***************************************************************************)
(* Construction and elaboration                                            *)
(***************************************************************************)

\* Largest width argument tried.
MaxBuildWidth == 24

\* The impl arguments tried: the two members of Impl, None, and some other
\* value.
ImplArgs == {"RESTORING", "NON_RESTORING", "None", "other"}

\* _DoubleDabble.__init__(width)
DoubleDabbleConstruct(b) ==
    IF b.width <= 3 THEN [b EXCEPT !.phase = "raised in __init__"]
    ELSE [b EXCEPT !.phase = "constructed"]

\* _DoubleDabble.elaborate: the couts left over by the last level are
\* written to the bits of a 4-bit last_digit.
DoubleDabbleElaborate(b) ==
    LET last == Base10Width(b.width) - 2
        num_sa3s_in_level == b.width - (3 * (last + 1) - 1)
    IN  IF num_sa3s_in_level - 1 > 4
        THEN [b EXCEPT !.phase = "raised in elaborate"]
        ELSE [b EXCEPT !.phase = "elaborated"]

\* BinaryToBCD.__init__(width): no test of width.
BinaryToBCDConstruct(b) == [b EXCEPT !.phase = "constructed"]

\* BinaryToBCD.elaborate: _DoubleDabble(width) is constructed here for the
\* narrow widths, the base-1000 branch serves up to 20 bits.
BinaryToBCDElaborate(b) ==
    LET num_bcd_digits == Base10Width(b.width)
    IN  IF num_bcd_digits < 3 \/ b.width <= 10
        THEN IF DoubleDabbleConstruct(b).phase = "constructed"
             THEN [b EXCEPT !.phase = "elaborated"]
             ELSE [b EXCEPT !.phase = "raised in elaborate"]
        ELSE IF (num_bcd_digits > 3 /\ num_bcd_digits <= 6) \/ b.width <= 20
        THEN [b EXCEPT !.phase = "elaborated"]
        ELSE [b EXCEPT !.phase = "raised in elaborate"]

\* MulticycleDiv.__init__(width, impl): div_impl is set for the two members
\* of Impl only.
MulticycleDivConstruct(b) == [b EXCEPT !.phase = "constructed"]

MulticycleDivHasDivImpl(b) == b.impl \in {"RESTORING", "NON_RESTORING"}

\* MulticycleDiv.elaborate reads self.div_impl first.
MulticycleDivElaborate(b) ==
    IF MulticycleDivHasDivImpl(b) THEN [b EXCEPT !.phase = "elaborated"]
    ELSE [b EXCEPT !.phase = "raised in elaborate"]

\* A constructor call about to be made.
InitBuild ==
    /\ dut = "NONE"
    /\ opx = 0
    /\ opy = 0
    /\ iv = FALSE
    /\ isign = 0
    /\ rdy = FALSE
    /\ InitDesigns
    /\ \E cls \in {"_DoubleDabble", "BinaryToBCD", "MulticycleDiv"},
          width \in 1 .. MaxBuildWidth, impl \in ImplArgs :
          /\ cls # "MulticycleDiv" => impl = "RESTORING"
          /\ build = [cls |-> cls, width |-> width, impl |-> impl,
                      phase |-> "call"]

\* The constructor runs.
Construct ==
    /\ build.phase = "call"
    /\ build' = CASE build.cls = "_DoubleDabble" -> DoubleDabbleConstruct(build)
                  [] build.cls = "BinaryToBCD" -> BinaryToBCDConstruct(build)
                  [] build.cls = "MulticycleDiv" ->
                         MulticycleDivConstruct(build)
    /\ UNCHANGED <<dut, opx, opy, iv, isign, rdy, res, nr, ld, pm, mm, g_sign,
                   g_age, g_solo, g_idle, g_tag, got, accepted, delivered,
                   g_xfer, bcd, g_ops>>

\* The constructed component is elaborated.
Elaborate ==
    /\ build.phase = "constructed"
    /\ build' = CASE build.cls = "_DoubleDabble" ->
                         DoubleDabbleElaborate(build)
                  [] build.cls = "BinaryToBCD" -> BinaryToBCDElaborate(build)
                  [] build.cls = "MulticycleDiv" ->
                         MulticycleDivElaborate(build)
    /\ UNCHANGED <<dut, opx, opy, iv, isign, rdy, res, nr, ld, pm, mm, g_sign,
                   g_age, g_solo, g_idle, g_tag, got, accepted, delivered,
                   g_xfer, bcd, g_ops>>

NextBuild == Construct \/ Elaborate

SpecBuild == InitBuild /\ [][NextBuild]_vars

\* C28: BinaryToBCD(width) and _DoubleDabble(width) with width <= 3 fail in
\* the constructor: no such component is ever constructed, and none gets as
\* far as elaboration.
C28_NarrowWidthRejected ==
    (build.cls \in {"BinaryToBCD", "_DoubleDabble"} /\ build.width <= 3) =>
        build.phase \in {"call", "raised in __init__"}

\* The _DoubleDabble half of C28 alone.
C28_DoubleDabbleOnly ==
    (build.cls = "_DoubleDabble" /\ build.width <= 3) =>
        build.phase \in {"call", "raised in __init__"}

\* C29: MulticycleDiv with an impl that is neither Impl.RESTORING nor
\* Impl.NON_RESTORING fails in the constructor: no component without an
\* internal divider is ever constructed.
C29_UnknownImplRejected ==
    (build.cls = "MulticycleDiv" /\ ~MulticycleDivHasDivImpl(build)) =>
        build.phase \in {"call", "raised in __init__"}

(***************************************************************************)
(* PipelinedMul on a stall                                                 *)
(***************************************************************************)

\* C30: on a clock edge of a stall cycle of PipelinedMul (outp.valid
\* asserted, outp.ready low) no pipeline register changes: a, b, the sign
\* tag and v of every stage and every pipeline_out[i] are after the edge
\* what they were before.
C30_StallHoldsRegisters ==
    [][(dut = "PIPE" /\ PipelinedMulOutpValid(pm) /\ ~rdy) =>
           /\ pm'.pipeline_in = pm.pipeline_in
           /\ pm'.pipeline_out = pm.pipeline_out]_vars

\* C30 without the v of stage 0.
C30_AllButStage0V ==
    [][(dut = "PIPE" /\ PipelinedMulOutpValid(pm) /\ ~rdy) =>
           /\ pm'.pipeline_in =
                  [pm.pipeline_in EXCEPT ![0] = PipelinedMulBubble(pm)]
           /\ pm'.pipeline_out = pm.pipeline_out]_vars

(***************************************************************************)
(* Inside the dividers and MulticycleMul                                   *)
(***************************************************************************)

\* The implementation of the MulticycleDiv under test.
McdImpl == IF dut = "RES" THEN "RESTORING" ELSE "NON_RESTORING"

\* The two's complement of a W-bit word, as a W-bit word.
TwosComplement(x) == (2^Width - x) % 2^Width

\* C31: on the clock edge where MulticycleDiv registers the core's result,
\* the quadrant flags are those of the accepted operands (n negative only
\* if d # 0) and outp takes the core's q and r with, for a SIGNED divide, q
\* negated iff exactly one of the flags is set and r negated iff the
\* n-negative flag is set; for an UNSIGNED divide q and r are taken as they
\* are, whatever the top bits of n and d.
C31_QuadrantConversion ==
    [][(dut \in {"RES", "NR"} /\ Mcd.fsm = "DIVIDE_LOOP" /\ Mcd.core.valid) =>
           LET raw == CoreOutp(McdImpl, Mcd.core)
               nneg == Bit(opx, Width - 1) = 1 /\ opy # 0
               dneg == Bit(opy, Width - 1) = 1
               sgn == g_sign = SIGNED
           IN  /\ Mcd.quad_n = (IF nneg THEN 1 ELSE 0)
               /\ Mcd.quad_d = (IF dneg THEN 1 ELSE 0)
               /\ Mcd'.fsm = "DIVIDE_OUT"
               /\ Mcd'.outp.q = IF sgn /\ nneg # dneg
                                THEN TwosComplement(raw.q) ELSE raw.q
               /\ Mcd'.outp.r = IF sgn /\ nneg
                                THEN TwosComplement(raw.r) ELSE raw.r]_vars

C31_Witness ==
    /\ dut = "RES"
    /\ MulticycleDivOutpValid(Mcd)
    /\ g_sign = UNSIGNED
    /\ Bit(opx, Width - 1) = 1
    /\ Bit(opy, Width - 1) = 0
    /\ opy # 0
    /\ Mcd.quad_n = 1
    /\ Mcd.outp.q = opx \div opy
    /\ Mcd.outp.r = opx % opy
    /\ Mcd.outp.r # 0

\* C32: the non-restoring core runs its restore cycle right after the W-th
\* loop iteration and asserts outp.valid only after it; that cycle turns the
\* encoded quotient bits q_raw into q_raw minus their ones' complement
\* (mod 2^W) and, iff the running remainder is negative, adds the divisor to
\* the remainder and takes one more off the quotient; for d # 0 the result
\* then has r < d and q * d + r = n, n and d being the core's unsigned
\* inputs.
C32_NonRestoringRestore ==
    [][dut = "NR" =>
           /\ nr.core.restore_step <=> g_age = Width + 2
           /\ nr.core.restore_step =>
                  LET q_raw == nr.core.intermediate % 2^Width
                      s == nr.core.intermediate \div 2^Width
                      negative == s >= 2^Width
                      d == nr.core.d_copy
                      n == nr.div_inputs.n
                      q == NonRestoringOutp(nr'.core).q
                      r == NonRestoringOutp(nr'.core).r
                  IN  /\ nr.core.iters_left = 0
                      /\ ~nr.core.valid
                      /\ nr'.core.valid
                      /\ ~nr'.core.restore_step
                      /\ q = (q_raw - ((2^Width - 1) - q_raw)
                                - (IF negative THEN 1 ELSE 0)) % 2^Width
                      /\ r = (s + (IF negative THEN d ELSE 0)) % 2^Width
                      /\ d # 0 => (r < d /\ q * d + r = n)]_vars

C32_Witness ==
    /\ dut = "NR"
    /\ nr.core.valid
    /\ g_sign = UNSIGNED
    /\ nr.core.d_copy > 1
    /\ nr.core.intermediate \div 2^Width >= 2^Width
    /\ nr.core.r = (nr.core.intermediate \div 2^Width + nr.core.d_copy)
                       % 2^Width
    /\ nr.core.r # 0
    /\ NonRestoringOutp(nr.core).q * nr.core.d_copy + nr.core.r = opx

(***************************************************************************)
(* _DoubleDabble(W) as a combinational network                             *)
(***************************************************************************)

\* Widest _DoubleDabble tried; the narrowest is the 4 the constructor
\* accepts.
MaxDabbleWidth == 13

DabbleWidths == 4 .. MaxDabbleWidth

\* An elaborated _DoubleDabble(W) with the value opx on inp; its outp has not
\* been looked at.
InitDabble ==
    /\ dut = "DD"
    /\ \E w \in DabbleWidths :
          /\ build = [cls |-> "_DoubleDabble", width |-> w, impl |-> "none",
                      phase |-> "elaborated"]
          /\ opx \in 0 .. (2^w - 1)
    /\ opy = 0
    /\ iv = FALSE
    /\ isign = 0
    /\ rdy = FALSE
    /\ InitDesigns

\* The network settles and outp is read.
ReadDabble ==
    /\ dut = "DD"
    /\ delivered = <<>>
    /\ delivered' = <<DoubleDabbleOutp(build.width, opx)>>
    /\ UNCHANGED <<dut, opx, opy, iv, isign, rdy, res, nr, ld, pm, mm, g_sign,
                   g_age, g_solo, g_idle, g_tag, got, accepted, g_xfer, bcd,
                   g_ops, build>>

NextDabble == ReadDabble

SpecDabble == InitDabble /\ [][NextDabble]_vars

\* C33: for every width W in 4..13 and every x below 2^W, outp of
\* _DoubleDabble(W) has ceil(log10(2^W)) digits and digit n is
\* floor(x / 10^n) mod 10, so no digit is above 9.
C33_DoubleDabbleDigits ==
    (dut = "DD" /\ delivered # <<>>) =>
        /\ DOMAIN delivered[1] = 0 .. (Base10Width(build.width) - 1)
        /\ \A n \in DOMAIN delivered[1] :
               /\ delivered[1][n] = DecimalDigit(opx, n)
               /\ delivered[1][n] <= 9

C33_Witness ==
    /\ dut = "DD"
    /\ build.width = 13
    /\ opx = 8191
    /\ delivered = <<[n \in 0 .. 3 |-> IF n = 0 THEN 1 ELSE IF n = 1 THEN 9
                                       ELSE IF n = 2 THEN 1 ELSE 8]>>

(***************************************************************************)
(* _B2ToB1000 inside BinaryToBCD(20)                                       *)
(***************************************************************************)

\* C34: whenever the _B2ToB1000 of BinaryToBCD(20) presents the conversion
\* of an accepted 20-bit input x with outp.valid, payload[0] is x mod 1000,
\* payload[1] is floor(x / 1000), and both are at most 999. (payload is
\* indexed from 1 in the model.)
C34_Base1000Digits ==
    (dut = "BCD" /\ bcd.b2b1000.outp_valid) =>
        /\ bcd.b2b1000.payload[1] = opx % 1000
        /\ bcd.b2b1000.payload[2] = opx \div 1000
        /\ bcd.b2b1000.payload[1] <= 999
        /\ bcd.b2b1000.payload[2] <= 999

\* C34 for the inputs below 10^6 only.
C34_Below10e6 == opx < 1000000 => C34_Base1000Digits

\* The low digit alone, for every input.
C34_LowDigit ==
    (dut = "BCD" /\ bcd.b2b1000.outp_valid) =>
        bcd.b2b1000.payload[1] = opx % 1000

(***************************************************************************)
(* LongDivider with inp.payload changing during a computation              *)
(***************************************************************************)

InitLongPayload ==
    /\ dut = "LONG"
    /\ opx \in Words
    /\ opy \in Words
    /\ iv \in BOOLEAN
    /\ isign \in DivSigns
    /\ rdy \in BOOLEAN
    /\ InitRegs

\* The values inp.payload can carry.
DivPayloads == [sign : DivSigns, n : Words, d : Words]

\* One clock edge of LongDivider.  The sender offers the one divide of opx
\* by opy with inp.valid and keeps inp.valid low once it has been accepted;
\* while inp.valid is low inp.payload carries any value.
TickLongPayload ==
    /\ dut = "LONG"
    /\ \E wires \in DivPayloads :
           ld' = LongDividerStep(ld, iv, IF iv THEN DivPayload ELSE wires,
                                 rdy)
    /\ Observe(LongDividerInpReady(ld, rdy) /\ iv,
               ld.valid /\ rdy,
               ~LongDividerInProgress(ld),
               ~LongDividerInProgress(ld) /\ (ld.valid => rdy))
    /\ g_ops' = IF LongDividerInpReady(ld, rdy) /\ iv
                THEN [x |-> opx, y |-> opy] ELSE g_ops
    /\ iv' \in IF g_sign' = 0 THEN BOOLEAN ELSE {FALSE}
    /\ rdy' \in BOOLEAN
    /\ UNCHANGED <<dut, opx, opy, isign, res, nr, pm, mm, g_tag, got,
                   accepted, delivered, g_xfer, bcd, build>>

NextLongPayload == TickLongPayload

SpecLongPayload == InitLongPayload /\ [][NextLongPayload]_vars

\* The result of the run that accepts the payload p and holds it on
\* inp.payload, with inp.valid low, until outp.valid.
LongHeld(p) ==
    LongDividerOutp(LongRun(LongDividerStep(LongDividerInit, TRUE, p, TRUE),
                            p, AgeCap))

\* The divide accepted last has just been completed.
LongFresh ==
    /\ dut = "LONG"
    /\ ld.valid
    /\ ~LongDividerInProgress(ld)
    /\ g_age = Width

\* C35: the result of a divide accepted by LongDivider depends on the
\* payload sampled on the accepting edge only: whatever is driven on
\* inp.payload on the later cycles, with inp.valid low, the q, r and sign
\* presented are those of the run that holds the accepted payload.
C35_PayloadSampledOnce ==
    LongFresh =>
        LongDividerOutp(ld)
            = LongHeld([sign |-> g_sign, n |-> g_ops.x, d |-> g_ops.y])

\* The sign tag alone is the one sampled on the accepting edge.
C35_SignSampled == LongFresh => LongDividerOutp(ld).sign = g_sign

(***************************************************************************)
(* The division identity                                                   *)
(***************************************************************************)

C36_WitnessZero ==
    /\ McdDone
    /\ dut = "NR"
    /\ opy = 0
    /\ opx # 0
    /\ Mcd.outp.r = opx

(***************************************************************************)
(* MulticycleDiv runs every divide to completion                           *)
(***************************************************************************)

InitMcd ==
    /\ dut \in {"RES", "NR"}
    /\ InitDiv

NextMcd == TickRes \/ TickNr

\* The clock does not stop and the receiver asserts outp.ready again and
\* again: there is always another clock edge that ends with outp.ready
\* asserted.
SpecMcdFair ==
    InitMcd /\ [][NextMcd]_vars /\ WF_vars(NextMcd /\ rdy')

\* C37: a divide accepted by MulticycleDiv has outp.valid asserted from
\* a fixed number of clock edges after the accepting one (W+3 RESTORING,
\* W+4 NON_RESTORING) whatever inp.valid, inp.payload and outp.ready do,
\* and, outp.ready being asserted again and again, every accepted divide
\* leads to its output transfer and to the divider in IDLE with inp.ready
\* asserted.
C37_RunsToCompletion ==
    /\ []((g_age >= McdLatency) => MulticycleDivOutpValid(Mcd))
    /\ (g_age = 1) ~> (/\ g_age = 0
                       /\ Mcd.fsm = "IDLE"
                       /\ MulticycleDivInpReady(Mcd))

C37_Witness ==
    /\ dut = "NR"
    /\ g_sign = SIGNED
    /\ g_age = 0
    /\ nr.fsm = "IDLE"
    /\ MulticycleDivInpReady(nr)
    /\ nr.outp.q # 0
    /\ nr.outp.r # 0

(***************************************************************************)
(* The shared register of MulticycleMul                                    *)
(***************************************************************************)

\* The operands as the accepting branch normalises them: a SIGNED multiply
\* by a negative b negates both, an UNSIGNED one takes both words as they
\* are, and otherwise a is read signed and b is taken as it is.
MulNormalised(a, b, sign) ==
    IF sign = SIGNED /\ Bit(b, Width - 1) = 1
    THEN [a |-> -ToSigned(a, Width), b |-> ToUnsigned(-b, Width)]
    ELSE IF sign = UNSIGNED
    THEN [a |-> a, b |-> b]
    ELSE [a |-> ToSigned(a, Width), b |-> b]

\* The k-th shift-add step of the multiply accepted last, alone, has just
\* been done.
MMulAfterStep(k) ==
    /\ dut = "MMUL"
    /\ g_solo
    /\ g_age = k
    /\ mm.iters_left = Width - k

CoreUpper(c) == c.intermediate \div (2^Width)

\* The core of the MulticycleDiv under test does a loop iteration on the
\* coming clock edge, dividing by a divisor other than 0.
CoreIterates ==
    /\ dut \in {"RES", "NR"}
    /\ Mcd.core.iters_left # 0
    /\ ~Mcd.core.restore_step
    /\ Mcd.core.d_copy # 0

\* C39: for a divisor d # 0, each loop iteration of an unsigned core
\* leaves in the upper W+1 bits of intermediate the exact running
\* remainder, computed from the old upper bits, the dividend bit shifted
\* in and d alone: in _RestoringDiv 2r + b reduced by d when it is not
\* below d, which lies in [0, d); in _NonRestoringDiv, read as a (W+1)-bit
\* two's-complement number, 2r + b - d for r >= 0 and 2r + b + d for
\* r < 0, which lies in [-d, d).  The sign bit (bit 2W) is that of this
\* remainder, whatever quotient bit enters the lower half.
C39_RunningRemainder ==
    [][CoreIterates =>
          LET c == Mcd.core
              d == c.d_copy
              b == Bit(c.intermediate, Width - 1)
              r == CoreUpper(c)
              sr == ToSigned(r, Width + 1)
              rn == CoreUpper(Mcd'.core)
              srn == ToSigned(rn, Width + 1)
          IN  IF dut = "RES"
              THEN /\ rn = IF 2 * r + b >= d THEN 2 * r + b - d
                           ELSE 2 * r + b
                   /\ 0 <= rn /\ rn < d
                   /\ Bit(Mcd'.core.intermediate, 2 * Width) = 0
              ELSE /\ srn = IF sr < 0 THEN 2 * sr + b + d
                            ELSE 2 * sr + b - d
                   /\ -d <= srn /\ srn < d
                   /\ Bit(Mcd'.core.intermediate, 2 * Width)
                          = IF srn < 0 THEN 1 ELSE 0]_vars

\* The non-restoring core before its last iteration, with a negative
\* running remainder above a quotient bit that is set.
C39_Witness ==
    /\ dut = "NR"
    /\ nr.core.iters_left = 1
    /\ nr.core.d_copy > 1
    /\ ToSigned(CoreUpper(nr.core), Width + 1) < -1
    /\ Bit(nr.core.intermediate, 1) = 1

====
